---- MODULE Spec2Model ----
(***************************************************************************)
(* Model of django_signals_demo_py.py: the simulated Signal dispatcher     *)
(* (connect / send), the User.create call sites, and the FAKE_DB           *)
(* transaction demo (atomic / create_user / log_user_creation).            *)
(*                                                                         *)
(* Two specifications share the dispatcher's actions:                      *)
(*   Spec       - a caller that calls connect and send in any order, with  *)
(*                handlers that return, raise, or connect re-entrantly.    *)
(*   SpecScript - the module's top-level script, statement by statement,   *)
(*                with the transaction demo's arguments drawn from sets.   *)
(***************************************************************************)
EXTENDS Naturals, Sequences, FiniteSets, TLC

VARIABLES
    receivers,   \* post_save._receivers: sequence of handler names
    lastRet,     \* value returned by the latest connect call
    connectLog,  \* history: arguments of the connect calls on the current Signal
    pc,          \* position of the caller / the script
    cont,        \* where the caller resumes when send returns
    idx,         \* list-iterator index of the for loop in send
    hstate,      \* "none" or "started": the receiver frame called by send
    invoked,     \* history: receiver calls made by the current send
    completed,   \* history: how many of those calls have ended (returned or raised)
    exc,         \* exception in flight / observed by the caller ("none")
    thread,      \* identity of the thread executing the program
    callerTid,   \* threading.get_ident() seen by the caller before send
    sendArgs,    \* sender and instance passed to the current send
    startRecv,   \* history: receivers when the current send was called
    FAKE_DB,     \* [users, logs]
    backup,      \* atomic()'s local snapshot of the logs
    entryDB,     \* history: FAKE_DB when the atomic block was entered
    txnArgs,     \* [username, raise_exception] of the current create_user
    txns,        \* number of transaction blocks run so far
    out          \* printed lines

vars == <<receivers, lastRet, connectLog, pc, cont, idx, hstate, invoked, completed, exc,
          thread, callerTid, sendArgs, startRecv, FAKE_DB, backup, entryDB,
          txnArgs, txns, out>>

sigVars == <<receivers, lastRet, connectLog>>
dbVars  == <<FAKE_DB, backup, entryDB, txnArgs, txns>>

----------------------------------------------------------------------------
(* Bounds *)

MaxReceivers == 3
MaxTxns == 2

----------------------------------------------------------------------------
(* Value sets *)

Threads == {"T1", "T2"}
Senders == {"User", "Other"}
Usernames == {"txn_test_user", "alice"}
Instances == {[username |-> u] : u \in Usernames}

\* Handlers of the script.
ScriptHandlers == {"slow_signal_handler", "handler", "log_user_creation"}
\* Handlers a caller may register: two that return, one that raises, one that
\* connects a returning handler and one that connects itself again.
PlainHandlers == {"h1", "h2"}
RaisingHandlers == {"r1"}
ConnectingHandlers == {"c_h", "c_c"}
Handlers == PlainHandlers \cup RaisingHandlers \cup ConnectingHandlers

ExcOf(h) == "Err_" \o h
ConnectTarget(h) == IF h = "c_h" THEN "h1" ELSE "c_c"

NoArgs == [sender |-> "none", instance |-> [username |-> "none"]]
NoTxn == [username |-> "none", raise_exception |-> FALSE]
EmptyDB == [users |-> <<>>, logs |-> <<>>]

Count(s, h) == Cardinality({i \in 1..Len(s) : s[i] = h})
HandlersOf(calls) == [i \in 1..Len(calls) |-> calls[i].h]

----------------------------------------------------------------------------
(* class Signal *)

\* Signal.__init__: self._receivers = []
NewSignalStale == receivers
NewSignal == <<>>

\* Signal.connect: self._receivers.append(func)
ConnectDedup(recv, f) ==
    IF \E i \in 1..Len(recv) : recv[i] = f THEN recv ELSE Append(recv, f)
ConnectList(recv, f) == Append(recv, f)

\* Signal.connect: return func
ConnectRet(f) == f

\* The list the for loop of send iterates: the live self._receivers.
IterSnapshot(live, atCall) == atCall
IterList(live, atCall) == live

\* list iterator __next__: an element while the index is inside the list.
IterHasNextOnce(recv, i) == i < Len(recv) /\ i < 1
IterHasNext(recv, i) == i < Len(recv)

\* receiver(sender=sender, **kwargs) is a plain call: the loop goes on (or
\* send returns) only when the receiver's frame is gone.
CallFireAndForget(hs) == TRUE
CallCompleted(hs) == hs = "none"

\* The thread that runs a receiver called from a thread t.
ReceiverThreadSpawned(t) == CHOOSE u \in Threads : u # t
ReceiverThread(t) == t

\* The call send makes: receiver(sender=sender, **kwargs)
ReceiverCall(h, args, t) ==
    [h |-> h, sender |-> args.sender, instance |-> args.instance, tid |-> t]

\* send has no try/except: an exception of a receiver leaves the loop.
SendSwallows(e) == [propagates |-> FALSE, exc |-> "none"]
SendOnRaise(e) == [propagates |-> TRUE, exc |-> e]

\* Where an exception leaving send lands: the caller of the generic harness
\* observes it; in the script it unwinds create_user into atomic()'s except
\* clause, or ends the script when no handler encloses the call.
RaiseTarget(c) ==
    CASE c = "returned" -> "raised"
      [] c = "L166" -> "L157"
      [] OTHER -> "crashed"

----------------------------------------------------------------------------
(* Receivers *)

\* What a receiver prints when it starts / ends.
StartPrint(h) ==
    CASE h = "slow_signal_handler" -> <<"Signal handler started">>
      [] h = "handler" -> <<"Signal handler running in thread: " \o thread>>
      [] h = "log_user_creation" -> <<"Creating log in signal handler...">>
      [] OTHER -> <<>>
EndPrint(h) ==
    IF h = "slow_signal_handler" THEN <<"Signal handler ended">> ELSE <<>>

\* f"User created: {instance['username']}"
LogMsg(instance) == "User created: " \o instance.username

\* create_log: FAKE_DB["logs"].append(message)
create_log(db, message) == [db EXCEPT !.logs = Append(@, message)]

----------------------------------------------------------------------------
(* Signal.send, step by step *)

\* send(sender, **kwargs) is entered; c is where the caller resumes.
EnterSend(s, inst, c) ==
    /\ pc' = "send"
    /\ cont' = c
    /\ idx' = 0
    /\ hstate' = "none"
    /\ invoked' = <<>>
    /\ completed' = 0
    /\ exc' = "none"
    /\ sendArgs' = [sender |-> s, instance |-> inst]
    /\ startRecv' = receivers

\* for receiver in self._receivers: the next receiver is called.
SendNext ==
    /\ pc = "send"
    /\ CallCompleted(hstate)
    /\ IterHasNext(IterList(receivers, startRecv), idx)
    /\ LET h == IterList(receivers, startRecv)[idx + 1] IN
        /\ idx' = idx + 1
        /\ hstate' = "started"
        /\ invoked' = Append(invoked, ReceiverCall(h, sendArgs, ReceiverThread(thread)))
        /\ out' = out \o StartPrint(h)
    /\ UNCHANGED <<sigVars, dbVars, pc, cont, completed, exc, thread, callerTid, sendArgs, startRecv>>

\* The running receiver finishes: it returns, raises, connects a further
\* receiver to the same Signal, or appends a log entry.
ReceiverEnd ==
    /\ pc = "send"
    /\ hstate = "started"
    /\ LET h == invoked[Len(invoked)].h IN
        /\ hstate' = "none"
        /\ completed' = completed + 1
        /\ out' = out \o EndPrint(h)
        /\ IF h \in RaisingHandlers
             THEN LET r == SendOnRaise(ExcOf(h)) IN
                  /\ exc' = r.exc
                  /\ pc' = IF r.propagates THEN RaiseTarget(cont) ELSE pc
             ELSE UNCHANGED <<exc, pc>>
        /\ IF h \in ConnectingHandlers
             THEN /\ Len(receivers) < MaxReceivers
                  /\ receivers' = ConnectList(receivers, ConnectTarget(h))
                  /\ lastRet' = ConnectRet(ConnectTarget(h))
                  /\ connectLog' = Append(connectLog, ConnectTarget(h))
             ELSE UNCHANGED sigVars
        /\ IF h = "log_user_creation"
             THEN FAKE_DB' = create_log(FAKE_DB, LogMsg(invoked[Len(invoked)].instance))
             ELSE UNCHANGED FAKE_DB
    /\ UNCHANGED <<backup, entryDB, txnArgs, txns, cont, idx, invoked, thread,
                   callerTid, sendArgs, startRecv>>

\* The iterator is exhausted: send returns None to its caller.
SendReturn ==
    /\ pc = "send"
    /\ CallCompleted(hstate)
    /\ ~IterHasNext(IterList(receivers, startRecv), idx)
    /\ pc' = cont
    /\ UNCHANGED <<sigVars, dbVars, cont, idx, hstate, invoked, completed, exc, thread,
                   callerTid, sendArgs, startRecv, out>>

----------------------------------------------------------------------------
(* Spec: a caller of one Signal *)

Init ==
    /\ receivers = NewSignal
    /\ lastRet = "none"
    /\ connectLog = <<>>
    /\ pc = "idle"
    /\ cont = "returned"
    /\ idx = 0
    /\ hstate = "none"
    /\ invoked = <<>>
    /\ completed = 0
    /\ exc = "none"
    /\ thread \in Threads
    /\ callerTid = "none"
    /\ sendArgs = NoArgs
    /\ startRecv = <<>>
    /\ FAKE_DB = EmptyDB
    /\ backup = <<>>
    /\ entryDB = EmptyDB
    /\ txnArgs = NoTxn
    /\ txns = 0
    /\ out = <<>>

\* post_save.connect(f) called by the caller.
Connect ==
    /\ pc = "idle"
    /\ Len(receivers) < MaxReceivers
    /\ \E f \in Handlers :
        /\ receivers' = ConnectList(receivers, f)
        /\ lastRet' = ConnectRet(f)
        /\ connectLog' = Append(connectLog, f)
    /\ UNCHANGED <<dbVars, pc, cont, idx, hstate, invoked, completed, exc, thread,
                   callerTid, sendArgs, startRecv, out>>

\* The caller notes its thread identity and calls post_save.send.
CallSend ==
    /\ pc = "idle"
    /\ \E s \in Senders, inst \in Instances : EnterSend(s, inst, "returned")
    /\ callerTid' = thread
    /\ UNCHANGED <<sigVars, dbVars, thread, out>>

\* The caller goes on after send returned or raised.
Resume ==
    /\ pc \in {"returned", "raised"}
    /\ pc' = "idle"
    /\ UNCHANGED <<sigVars, dbVars, cont, idx, hstate, invoked, completed, exc, thread,
                   callerTid, sendArgs, startRecv, out>>

Next == Connect \/ CallSend \/ SendNext \/ ReceiverEnd \/ SendReturn \/ Resume

Spec == Init /\ [][Next]_vars

----------------------------------------------------------------------------
(* The transaction demo's helpers *)

\* atomic(): backup = FAKE_DB["logs"][:]
AtomicBackup(db) == db.logs

\* atomic(), except clause: FAKE_DB["logs"] = backup
AtomicNoRestore(db, bk) == db
AtomicRestoreAll(db, bk) ==
    [users |-> SubSeq(db.users, 1, Len(db.users) - 1), logs |-> bk]
AtomicRollback(db, bk) == [db EXCEPT !.logs = bk]

\* atomic() under @contextmanager: the generator catches the Exception thrown
\* in at the yield and ends without raising again, so the with statement
\* treats the exception as handled.
AtomicOnException(e) == [propagates |-> FALSE, exc |-> "none"]

\* create_user: user = {"username": username}; FAKE_DB["users"].append(user)
MakeUser(username) == [username |-> username]
AddUser(db, user) == [db EXCEPT !.users = Append(@, user)]

\* The handler each section of the script connects, by the place its send
\* returns to.
SectionHandler(c) ==
    CASE c = "L59" -> "slow_signal_handler"
      [] c = "L123" -> "handler"
      [] c = "L166" -> "log_user_creation"
      [] OTHER -> "none"

----------------------------------------------------------------------------
(* SpecScript: the module's top-level statements; pc names the source line *)

InitScript ==
    /\ receivers = <<>>
    /\ lastRet = "none"
    /\ connectLog = <<>>
    /\ pc = "L33"
    /\ cont = "none"
    /\ idx = 0
    /\ hstate = "none"
    /\ invoked = <<>>
    /\ completed = 0
    /\ exc = "none"
    /\ thread \in Threads
    /\ callerTid = "none"
    /\ sendArgs = NoArgs
    /\ startRecv = <<>>
    /\ FAKE_DB = EmptyDB
    /\ backup = <<>>
    /\ entryDB = EmptyDB
    /\ txnArgs = NoTxn
    /\ txns = 0
    /\ out = <<>>

sendVars == <<cont, idx, hstate, invoked, completed, exc, sendArgs, startRecv>>

\* post_save = Signal()   (lines 33, 85, 139)
RebindSignal ==
    /\ pc \in {"L33", "L85", "L139"}
    /\ receivers' = NewSignal
    /\ connectLog' = <<>>
    /\ pc' = CASE pc = "L33" -> "L48" [] pc = "L85" -> "L100" [] OTHER -> "L146"
    /\ UNCHANGED <<lastRet, dbVars, sendVars, thread, callerTid, out>>

\* @post_save.connect on the section's handler   (lines 48, 100, 146)
ConnectHandler ==
    /\ pc \in {"L48", "L100", "L146"}
    /\ LET f == CASE pc = "L48" -> "slow_signal_handler"
                  [] pc = "L100" -> "handler"
                  [] OTHER -> "log_user_creation" IN
        /\ receivers' = ConnectList(receivers, f)
        /\ lastRet' = ConnectRet(f)
        /\ connectLog' = Append(connectLog, f)
    /\ pc' = CASE pc = "L48" -> "L56" [] pc = "L100" -> "L105" [] OTHER -> "L171"
    /\ UNCHANGED <<dbVars, sendVars, thread, callerTid, out>>

\* User.create("testuser_sync"), lines 41-44: print, then post_save.send
CreateSync ==
    /\ pc = "L56"
    /\ out' = Append(out, "User instance created")
    /\ EnterSend("User", MakeUser("testuser_sync"), "L59")
    /\ UNCHANGED <<sigVars, dbVars, thread, callerTid>>

\* print(f"Total time taken: ...")   (line 59)
PrintTotal ==
    /\ pc = "L59"
    /\ out' = Append(out, "Total time taken")
    /\ pc' = "L85"
    /\ UNCHANGED <<sigVars, dbVars, sendVars, thread, callerTid>>

\* User.create("thread_test_user"), lines 93-96: print get_ident(), then send
CreateThreadTest ==
    /\ pc = "L105"
    /\ callerTid' = thread
    /\ out' = Append(out, "User created in thread: " \o thread)
    /\ EnterSend("User", MakeUser("thread_test_user"), "L123")
    /\ UNCHANGED <<sigVars, dbVars, thread>>

\* FAKE_DB = {"users": [], "logs": []}   (line 123)
MakeDB ==
    /\ pc = "L123"
    /\ FAKE_DB' = EmptyDB
    /\ pc' = "L139"
    /\ UNCHANGED <<sigVars, backup, entryDB, txnArgs, txns, sendVars, thread,
                   callerTid, out>>

\* print("Starting transaction...")   (line 171)
PrintStart ==
    /\ pc = "L171"
    /\ out' = Append(out, "Starting transaction...")
    /\ pc' = "L173"
    /\ UNCHANGED <<sigVars, dbVars, sendVars, thread, callerTid>>

\* with atomic(): the generator runs to its yield   (lines 173, 154-156)
AtomicEnter ==
    /\ pc = "L173"
    /\ backup' = AtomicBackup(FAKE_DB)
    /\ entryDB' = FAKE_DB
    /\ txns' = txns + 1
    /\ pc' = "L174"
    /\ UNCHANGED <<sigVars, FAKE_DB, txnArgs, sendVars, thread, callerTid, out>>

\* create_user(username, raise_exception), lines 163-165
CreateUser ==
    /\ pc = "L174"
    /\ \E u \in Usernames, r \in BOOLEAN :
        /\ txnArgs' = [username |-> u, raise_exception |-> r]
        /\ FAKE_DB' = AddUser(FAKE_DB, MakeUser(u))
        /\ EnterSend("User", MakeUser(u), "L166")
    /\ UNCHANGED <<sigVars, backup, entryDB, txns, thread, callerTid, out>>

\* create_user, lines 166-168: raise after the signal, or return the user and
\* leave the with block normally (the generator ends after its yield).
AfterSignal ==
    /\ pc = "L166"
    /\ IF txnArgs.raise_exception
         THEN /\ exc' = "Simulated error after signal"
              /\ pc' = "L157"
         ELSE /\ exc' = "none"
              /\ pc' = "L177"
    /\ UNCHANGED <<sigVars, dbVars, cont, idx, hstate, invoked, completed, sendArgs,
                   startRecv, thread, callerTid, out>>

\* The exception reaches atomic(): its except clause prints and restores the
\* logs (lines 157-159); if the exception still propagates out of the with
\* statement, the top-level except prints (lines 175-176).
AtomicExcept ==
    /\ pc = "L157"
    /\ LET r == AtomicOnException(exc) IN
        /\ FAKE_DB' = AtomicRollback(FAKE_DB, backup)
        /\ out' = out \o <<"Exception occurred, rolling back logs...">>
                      \o (IF r.propagates THEN <<"Transaction failed.">> ELSE <<>>)
        /\ exc' = "none"
    /\ pc' = "L177"
    /\ UNCHANGED <<sigVars, backup, entryDB, txnArgs, txns, cont, idx, hstate,
                   invoked, completed, sendArgs, startRecv, thread, callerTid>>

\* The try statement of lines 172-176 is run once more, so that the block is
\* also entered with logs and users left by earlier runs.
TxnAgain ==
    /\ pc = "L177"
    /\ txns < MaxTxns
    /\ pc' = "L173"
    /\ UNCHANGED <<sigVars, dbVars, sendVars, thread, callerTid, out>>

\* print("Final Logs in 'DB':", FAKE_DB["logs"])   (line 178)
PrintFinal ==
    /\ pc = "L177"
    /\ out' = Append(out, "Final Logs in 'DB'")
    /\ pc' = "done"
    /\ UNCHANGED <<sigVars, dbVars, sendVars, thread, callerTid>>

NextScript ==
    \/ RebindSignal \/ ConnectHandler \/ CreateSync \/ PrintTotal
    \/ CreateThreadTest \/ MakeDB \/ PrintStart \/ AtomicEnter \/ CreateUser
    \/ AfterSignal \/ AtomicExcept \/ TxnAgain \/ PrintFinal
    \/ SendNext \/ ReceiverEnd \/ SendReturn

SpecScript == InitScript /\ [][NextScript]_vars

----------------------------------------------------------------------------
(* Properties of the dispatcher, checked under Spec *)

AllPlain(recv) == \A i \in 1..Len(recv) : recv[i] \in PlainHandlers
SendOver == pc \in {"returned", "raised"}

\* C1: when none of the N registered handlers raises or connects, one send
\* calls each of the N entries exactly once, in registration order, each with
\* the sender and the instance given to send.
C1_SendCallsEachOnceInOrder ==
    (pc = "returned" /\ AllPlain(startRecv)) =>
        /\ Len(invoked) = Len(startRecv)
        /\ \A i \in 1..Len(invoked) :
            /\ invoked[i].h = startRecv[i]
            /\ invoked[i].sender = sendArgs.sender
            /\ invoked[i].instance = sendArgs.instance

C1_Witness ==
    /\ pc = "returned"
    /\ startRecv = <<"h2", "h1", "h2">>
    /\ Len(invoked) = 3
    /\ sendArgs.sender = "Other"

\* C2: when the handler at position i raises during send, the calls made by
\* that send are exactly positions 1..i (each once, none after i), none of the
\* earlier ones raised, and the caller observes that handler's exception; a
\* send that returns normally had no raising handler to call.
C2_RaiseAbortsAndPropagates ==
    /\ pc = "raised" =>
        LET i == Len(invoked) IN
        /\ i >= 1
        /\ i <= Len(receivers)
        /\ HandlersOf(invoked) = SubSeq(receivers, 1, i)
        /\ receivers[i] \in RaisingHandlers
        /\ \A j \in 1..(i - 1) : receivers[j] \notin RaisingHandlers
        /\ exc = ExcOf(receivers[i])
    /\ pc = "returned" =>
        /\ exc = "none"
        /\ \A j \in 1..Len(receivers) : receivers[j] \notin RaisingHandlers

C2_Witness ==
    /\ pc = "raised"
    /\ receivers = <<"h1", "r1", "h2">>
    /\ HandlersOf(invoked) = <<"h1", "r1">>
    /\ exc = "Err_r1"

\* C5: send is blocking: whenever the caller is past the send call (send has
\* returned or raised, or the caller has gone on), every receiver call made by
\* that send has ended and no receiver frame is still running.
C5_SendBlocksCaller ==
    pc \in {"returned", "raised", "idle"} =>
        /\ hstate = "none"
        /\ completed = Len(invoked)

C5_Witness ==
    /\ pc = "returned"
    /\ Len(invoked) = 2
    /\ completed = 2

\* C6: every receiver called by send observes the thread identity the caller
\* observed just before calling send.
C6_SameThread ==
    \A i \in 1..Len(invoked) : invoked[i].tid = callerTid

C6_Witness ==
    /\ pc = "send"
    /\ hstate = "started"
    /\ Len(invoked) = 2
    /\ callerTid = "T2"
    /\ invoked[2].tid = "T2"

\* C10, as claimed: send iterates the live list, and whenever a handler
\* connected a further handler during a send, that send, once over (returned
\* or raised), has called every entry of the receiver sequence, the newly
\* connected ones included.
C10_ReentrantAlwaysCalled ==
    /\ Len(invoked) <= Len(receivers)
    /\ HandlersOf(invoked) = SubSeq(receivers, 1, Len(invoked))
    /\ (SendOver /\ Len(receivers) > Len(startRecv)) =>
        Len(invoked) = Len(receivers)

\* C10, amended: send iterates the live list, so the calls of a send are always
\* a prefix of the receiver sequence, a send that returns normally has called
\* every entry (those connected during the send included, after the entries
\* registered before them), and a send whose handlers each connect a further
\* connecting handler never returns.
C10_ReentrantLiveIteration ==
    /\ Len(invoked) <= Len(receivers)
    /\ HandlersOf(invoked) = SubSeq(receivers, 1, Len(invoked))
    /\ pc = "returned" => Len(invoked) = Len(receivers)
    /\ pc = "returned" =>
        ~(startRecv # <<>> /\ \A i \in 1..Len(startRecv) : startRecv[i] = "c_c")

C10_Witness ==
    /\ pc = "returned"
    /\ startRecv = <<"h2", "c_h">>
    /\ receivers = <<"h2", "c_h", "h1">>
    /\ HandlersOf(invoked) = <<"h2", "c_h", "h1">>

\* C7, as claimed: the receiver sequence is the connect arguments in call
\* order, connect returns its argument, and every send that is over has called
\* each handler as many times as it was connected.
C7_ConnectedTimesAlwaysCalled ==
    /\ receivers = connectLog
    /\ lastRet = IF connectLog = <<>> THEN "none" ELSE connectLog[Len(connectLog)]
    /\ SendOver =>
        \A h \in Handlers : Count(HandlersOf(invoked), h) = Count(connectLog, h)

\* C7, amended: the receiver sequence is the connect arguments in call order
\* (duplicates kept, send never changes it), connect returns its argument, and
\* every send that returns without a handler raising has called each handler
\* as many times as it was connected.
C7_ConnectAppendsKeepsDuplicates ==
    /\ receivers = connectLog
    /\ lastRet = IF connectLog = <<>> THEN "none" ELSE connectLog[Len(connectLog)]
    /\ pc = "returned" =>
        \A h \in Handlers : Count(HandlersOf(invoked), h) = Count(connectLog, h)

C7_Witness ==
    /\ pc = "returned"
    /\ connectLog = <<"h1", "h2", "h1">>
    /\ lastRet = "h1"
    /\ Count(HandlersOf(invoked), "h1") = 2

----------------------------------------------------------------------------
(* Properties of the script, checked under SpecScript *)

\* The with statement of the current transaction has been left.
BlockLeft == pc \in {"L177", "done"} /\ txns > 0
RolledBack == BlockLeft /\ txnArgs.raise_exception

\* C3: rollback property: with S0 the logs when the atomic block was entered,
\* after the block the logs are S0 again when create_user raised after the
\* signal, and S0 followed by "User created: <username>" when it did not.
C3_RollbackRestoresLogs ==
    BlockLeft =>
        IF txnArgs.raise_exception
          THEN FAKE_DB.logs = entryDB.logs
          ELSE FAKE_DB.logs =
                 entryDB.logs \o <<"User created: " \o txnArgs.username>>

C3_Witness ==
    /\ pc = "L177"
    /\ txnArgs.raise_exception
    /\ entryDB.logs = <<"User created: alice">>
    /\ FAKE_DB.logs = <<"User created: alice">>
    /\ HandlersOf(invoked) = <<"log_user_creation">>
    /\ completed = 1

\* C4: after every rollback the top-level except branch is reached: each
\* "rolling back" line printed by atomic() is followed by the top-level
\* "Transaction failed." line.
C4_TopLevelExceptReached ==
    BlockLeft =>
        Count(out, "Transaction failed.")
            = Count(out, "Exception occurred, rolling back logs...")

\* C8: the rollback restores the logs only: after a rolled-back create_user
\* the users list is the users at block entry plus the new user record, while
\* the logs equal the logs at block entry.
C8_RollbackKeepsUser ==
    RolledBack =>
        /\ FAKE_DB.users = Append(entryDB.users, [username |-> txnArgs.username])
        /\ Len(FAKE_DB.users) = Len(entryDB.users) + 1
        /\ FAKE_DB.logs = entryDB.logs

C8_Witness ==
    /\ pc = "L177"
    /\ txnArgs = [username |-> "txn_test_user", raise_exception |-> TRUE]
    /\ entryDB = EmptyDB
    /\ FAKE_DB = [users |-> <<[username |-> "txn_test_user"]>>, logs |-> <<>>]
    /\ Count(out, "Exception occurred, rolling back logs...") = 1

\* C9: every send of the script finds exactly one receiver, the handler of
\* its own section, and calls only that handler.
C9_OneReceiverPerSection ==
    /\ pc = "send" => receivers = <<SectionHandler(cont)>>
    /\ pc \in {"L59", "L123", "L166"} =>
        /\ receivers = <<SectionHandler(pc)>>
        /\ HandlersOf(invoked) = <<SectionHandler(pc)>>

C9_Witness ==
    /\ pc = "L166"
    /\ receivers = <<"log_user_creation">>
    /\ HandlersOf(invoked) = <<"log_user_creation">>

====
